---- MODULE Spec2Model ----
(***************************************************************************)
(* PRISM hybrid plagiarism detector: the scoring engine (src/core) and the *)
(* Analyze handler of the dashboard (src/app.py).                          *)
(*                                                                         *)
(* Number representation.                                                  *)
(*   - percentages (lexical, structural) are results of round(x*100, 2):   *)
(*     an integer number of hundredths of a percent, 100.0 = 10000;        *)
(*   - the AI-assistance score is an integer number of hundredths,         *)
(*     0.4 = 40, 1.0 = 100.  The binary rounding error of the float sums   *)
(*     0.4+0.2+... is below 1e-15 and no threshold (0.4, 0.7) lies that    *)
(*     close to a sum other than the sum itself, so the comparisons are    *)
(*     those of the exact decimals;                                        *)
(*   - behavioural signals are ratios <<num, den>>, den > 0.               *)
(* Text representation.                                                    *)
(*   A text is a sequence of lexemes separated by single blanks:           *)
(*   "x","y" identifiers, "1" a number, "(" an opening bracket, "#c" a     *)
(*   comment whose body holds the word c, "\n" a line break.               *)
(***************************************************************************)
EXTENDS Integers, Sequences, FiniteSets, TLC

VARIABLES uploaded_files, session_state, run, args, ret, pc

vars == <<uploaded_files, session_state, run, args, ret, pc>>

(* ------------------------------ bounds -------------------------------- *)
MaxLen == 3
MaxFiles == 3

(* ------------------------------ helpers ------------------------------- *)
Min(a, b) == IF a <= b THEN a ELSE b
Max(a, b) == IF a >= b THEN a ELSE b

SeqsUpTo(S, n) == UNION {[1..k -> S] : k \in 0..n}

Range(s) == {s[i] : i \in 1..Len(s)}

\* ratio r = <<num, den>> compared with the decimal n/d
LtR(r, n, d) == r[1] * d < n * r[2]
GtR(r, n, d) == r[1] * d > n * r[2]

\* Python round(): nearest, ties to even; n/d >= 0, result an integer
round(n, d) ==
    LET q == n \div d
        r == n % d
    IN  IF 2 * r < d THEN q
        ELSE IF 2 * r > d THEN q + 1
        ELSE IF q % 2 = 0 THEN q ELSE q + 1

(* --------------------------- core/rules.py ---------------------------- *)
\* mutant: rule 3 tried before rule 2
classify_rule3_first(lexical, structural, ai_score) ==
    IF lexical > 8000 /\ structural > 8000 THEN "Direct Copy"
    ELSE IF lexical < 3500 /\ structural < 3500 THEN "Likely Original"
    ELSE IF ai_score >= 70 THEN "AI-Assisted Plagiarism"
    ELSE "Moderate Similarity"

\* mutant: rule 2 with a strict comparison
classify_strict_ai(lexical, structural, ai_score) ==
    IF lexical > 8000 /\ structural > 8000 THEN "Direct Copy"
    ELSE IF ai_score > 70 THEN "AI-Assisted Plagiarism"
    ELSE IF lexical < 3500 /\ structural < 3500 THEN "Likely Original"
    ELSE "Moderate Similarity"

classify_plagiarism(lexical, structural, ai_score) ==
    IF lexical > 8000 /\ structural > 8000 THEN "Direct Copy"
    ELSE IF ai_score >= 70 THEN "AI-Assisted Plagiarism"
    ELSE IF lexical < 3500 /\ structural < 3500 THEN "Likely Original"
    ELSE "Moderate Similarity"

(* ------------------------- core/ai_detector.py ------------------------ *)
\* mutant: the naming rule with <= for <
score_id_div_inclusive(lexical, structural, id_div, fmt, logic) ==
    LET score1 == IF structural > 7000 /\ lexical < 4000 THEN 40 ELSE 0
        score2 == IF ~GtR(id_div, 35, 100) THEN score1 + 20 ELSE score1
        score3 == IF GtR(fmt, 85, 100) THEN score2 + 20 ELSE score2
        score4 == IF GtR(logic, 15, 100) THEN score3 + 20 ELSE score3
    IN  Min(score4, 100)

\* mutant: the paraphrasing rule with "or" for "and"
score_pattern_or(lexical, structural, id_div, fmt, logic) ==
    LET score1 == IF structural > 7000 \/ lexical < 4000 THEN 40 ELSE 0
        score2 == IF LtR(id_div, 35, 100) THEN score1 + 20 ELSE score1
        score3 == IF GtR(fmt, 85, 100) THEN score2 + 20 ELSE score2
        score4 == IF GtR(logic, 15, 100) THEN score3 + 20 ELSE score3
    IN  Min(score4, 100)

ai_assistance_score(lexical, structural, id_div, fmt, logic) ==
    LET score0 == 0
        score1 == IF structural > 7000 /\ lexical < 4000
                  THEN score0 + 40 ELSE score0
        score2 == IF LtR(id_div, 35, 100) THEN score1 + 20 ELSE score1
        score3 == IF GtR(fmt, 85, 100) THEN score2 + 20 ELSE score2
        score4 == IF GtR(logic, 15, 100) THEN score3 + 20 ELSE score3
    IN  Min(score4, 100)

(* ------------------------------- texts -------------------------------- *)
Lexemes == {"x", "y", "1", "(", "#c", "\n"}

\* the text with every comment removed up to the end of its line: re.sub(r"#.*", "", t)
RECURSIVE strip_comments(_, _)
strip_comments(text, in_comment) ==
    IF text = <<>> THEN <<>>
    ELSE LET h == Head(text)
         IN  IF h = "\n" THEN <<h>> \o strip_comments(Tail(text), FALSE)
             ELSE IF in_comment \/ h = "#c" THEN strip_comments(Tail(text), TRUE)
             ELSE <<h>> \o strip_comments(Tail(text), FALSE)

\* re.findall(r"[A-Za-z_][A-Za-z0-9_]*", text): the identifier-shaped words, in
\* order, repeats kept; the word inside a comment is found like any other
RECURSIVE findall_names(_)
findall_names(text) ==
    IF text = <<>> THEN <<>>
    ELSE LET h == Head(text)
             w == IF h \in {"x", "y"} THEN <<h>>
                  ELSE IF h = "#c" THEN <<"c">>
                  ELSE <<>>
         IN  w \o findall_names(Tail(text))

\* the lines of a text: str.splitlines()
RECURSIVE splitlines(_, _)
splitlines(text, line) ==
    IF text = <<>> THEN (IF line = <<>> THEN <<>> ELSE <<line>>)
    ELSE IF Head(text) = "\n" THEN <<line>> \o splitlines(Tail(text), <<>>)
    ELSE splitlines(Tail(text), Append(line, Head(text)))

\* len(line) of a line written with single blanks between its lexemes
RECURSIVE chars(_)
chars(line) ==
    IF line = <<>> THEN 0
    ELSE (IF Head(line) = "#c" THEN 2 ELSE 1)
         + (IF Len(line) > 1 THEN 1 ELSE 0) + chars(Tail(line))

(* ------------------------ core/preprocessing.py ----------------------- *)
preprocess_code(code_text) ==
    SelectSeq(strip_comments(code_text, FALSE), LAMBDA l : l # "\n")

(* --------------------- core/lexical_similarity.py --------------------- *)
tokenize(code) == Range(findall_names(code))

\* mutant: divided by the first vocabulary, not by the union
lexical_over_first(code_a, code_b) ==
    LET tokens_a == tokenize(code_a)
        tokens_b == tokenize(code_b)
    IN  IF tokens_a = {} \/ tokens_b = {} THEN 0
        ELSE round(Cardinality(tokens_a \cap tokens_b) * 10000,
                   Cardinality(tokens_a))

\* mutant: divided by the sum of the two vocabularies, not by the union
lexical_over_sum(code_a, code_b) ==
    LET tokens_a == tokenize(code_a)
        tokens_b == tokenize(code_b)
    IN  IF tokens_a = {} \/ tokens_b = {} THEN 0
        ELSE round(Cardinality(tokens_a \cap tokens_b) * 10000,
                   Cardinality(tokens_a) + Cardinality(tokens_b))

lexical_similarity(code_a, code_b) ==
    LET tokens_a == tokenize(code_a)
        tokens_b == tokenize(code_b)
    IN  IF tokens_a = {} \/ tokens_b = {} THEN 0
        ELSE round(Cardinality(tokens_a \cap tokens_b) * 10000,
                   Cardinality(tokens_a \cup tokens_b))

(* ----------------------- core/ast_similarity.py ----------------------- *)
\* tokenize.generate_tokens fails at the end of input inside an open bracket
TokenError(code) == "(" \in Range(strip_comments(code, FALSE))

RECURSIVE normalize_tokens(_)
normalize_tokens(visible) ==
    IF visible = <<>> THEN <<"">>    \* ENDMARKER, whose string is empty
    ELSE LET h == Head(visible)
             t == IF h = "\n" THEN <<>>           \* NL, NEWLINE
                  ELSE IF h \in {"x", "y"} THEN <<"VAR">>
                  ELSE IF h = "1" THEN <<"NUM">>
                  ELSE <<h>>
         IN  t \o normalize_tokens(Tail(visible))

normalize(code) ==
    IF TokenError(code) THEN <<>>
    ELSE normalize_tokens(strip_comments(code, FALSE))

\* mutant: b_used is not consulted
first_equal(tok, b_tokens, b_used) ==
    {i \in 1..Len(b_tokens) : tok = b_tokens[i]}

\* lines 46-54: the first-fit loop; the state is <<matches, b_used>>
first_unused(tok, b_tokens, b_used) ==
    {i \in 1..Len(b_tokens) : ~b_used[i] /\ tok = b_tokens[i]}

\* mutant: every equal token of B is counted, none is marked, no break
RECURSIVE greedy_all_pairs(_, _, _, _)
greedy_all_pairs(a_tokens, b_tokens, b_used, matches) ==
    IF a_tokens = <<>> THEN matches
    ELSE greedy_all_pairs(Tail(a_tokens), b_tokens, b_used,
             matches + Cardinality({i \in 1..Len(b_tokens) :
                                       Head(a_tokens) = b_tokens[i]}))

RECURSIVE greedy(_, _, _, _)
greedy(a_tokens, b_tokens, b_used, matches) ==
    IF a_tokens = <<>> THEN matches
    ELSE LET hit == first_unused(Head(a_tokens), b_tokens, b_used)
         IN  IF hit = {} THEN greedy(Tail(a_tokens), b_tokens, b_used, matches)
             ELSE LET i == CHOOSE j \in hit : \A k \in hit : j <= k
                  IN  greedy(Tail(a_tokens), b_tokens,
                             [b_used EXCEPT ![i] = TRUE], matches + 1)

count_matches(a_tokens, b_tokens) ==
    greedy(a_tokens, b_tokens, [i \in 1..Len(b_tokens) |-> FALSE], 0)

similarity_of_tokens(a_tokens, b_tokens) ==
    IF a_tokens = <<>> \/ b_tokens = <<>> THEN 0
    ELSE round(count_matches(a_tokens, b_tokens) * 10000,
               Max(Len(a_tokens), Len(b_tokens)))

ast_similarity(code_a, code_b) ==
    IF code_a = <<>> \/ code_b = <<>> THEN 0
    ELSE similarity_of_tokens(normalize(code_a), normalize(code_b))

(* ------------------------- core/ai_signals.py ------------------------- *)
identifier_diversity(code) ==
    LET names == findall_names(code)
    IN  IF names = <<>> THEN <<0, 1>>
        ELSE <<Cardinality(Range(names)), Len(names)>>

formatting_consistency(code) ==
    LET lines == SelectSeq(splitlines(code, <<>>), LAMBDA l : l # <<>>)
        lengths == {chars(lines[i]) : i \in 1..Len(lines)}
        hi == CHOOSE m \in lengths : \A k \in lengths : k <= m
        lo == CHOOSE m \in lengths : \A k \in lengths : k >= m
    IN  IF lines = <<>> THEN <<0, 1>>
        ELSE <<hi - (hi - lo), hi>>

\* ast.parse is Python's own: logic_count is what it finds in this text, 0 when
\* it raises
logic_density(code, logic_count) ==
    LET line_count == Max(Len(splitlines(code, <<>>)), 1)
    IN  <<logic_count, line_count>>

(* ------------------------- core/explanation.py ------------------------ *)
\* round(r, 2) of a ratio, in hundredths
round2(r) == round(r[1] * 100, r[2])

\* a line is <<template, the values formatted into it>>
generate_explanation(file_a, file_b, lexical, structural, ai_score, id_div, fmt, logic) ==
    LET header == <<"Comparison between", <<file_a, file_b>>>>
        structural_line ==
            IF structural >= 8000
            THEN <<"Very high structural similarity", structural>>
            ELSE IF structural >= 6000
            THEN <<"Moderate structural similarity", structural>>
            ELSE <<"Low structural similarity", structural>>
        lexical_line ==
            IF lexical >= 8000 THEN <<"High lexical similarity", lexical>>
            ELSE IF lexical >= 4000 THEN <<"Moderate lexical similarity", lexical>>
            ELSE <<"Low lexical similarity", lexical>>
        pattern_lines ==
            IF structural > 7000 /\ lexical < 4000
            THEN << <<"common AI paraphrasing pattern", 0>> >> ELSE <<>>
        id_div_line ==
            IF LtR(id_div, 35, 100)
            THEN <<"Low identifier diversity", round2(id_div)>>
            ELSE <<"Identifier diversity appears human-like", round2(id_div)>>
        fmt_line ==
            IF GtR(fmt, 85, 100)
            THEN <<"High formatting consistency", round2(fmt)>>
            ELSE <<"Formatting consistency appears natural", round2(fmt)>>
        logic_line ==
            IF GtR(logic, 15, 100)
            THEN <<"High logic density", round2(logic)>>
            ELSE <<"Logic density is within normal human range", round2(logic)>>
        final_line ==
            IF ai_score >= 70
            THEN <<"indicating AI-assisted plagiarism", ai_score>>
            ELSE IF ai_score >= 40
            THEN <<"suggesting possible AI assistance", ai_score>>
            ELSE <<"indicating likely human-written code", ai_score>>
    IN  <<header, structural_line, lexical_line,
          <<"AI-assisted pattern analysis:", 0>> >>
        \o pattern_lines
        \o <<id_div_line, fmt_line, logic_line, final_line>>

(* ======================= calls of the pure functions ================== *)
\* sample inputs on and around every threshold of the engine
PercentSamples == {0, 3499, 3500, 3999, 4000, 7000, 7001, 8000, 8001, 10000}
ScoreSamples == {0, 20, 40, 60, 69, 70, 80, 100}
IdDivSamples == {<<34, 100>>, <<35, 100>>, <<1, 2>>}
FmtSamples == {<<1, 2>>, <<85, 100>>, <<86, 100>>}
LogicSamples == {<<15, 100>>, <<16, 100>>, <<1, 2>>}

Idle == /\ uploaded_files = <<>>
        /\ session_state = [done |-> FALSE, df |-> <<>>, explanations |-> <<>>]
        /\ run = [outcome |-> "none", rows |-> <<>>, explanations |-> <<>>,
                  pairs |-> <<>>]

\* ---- classify_plagiarism
InitRules == /\ Idle
             /\ pc = "call"
             /\ args \in PercentSamples \X PercentSamples \X ScoreSamples
             /\ ret = ""

CallRules == /\ pc = "call"
             /\ ret' = classify_plagiarism(args[1], args[2], args[3])
             /\ pc' = "return"
             /\ UNCHANGED <<uploaded_files, session_state, run, args>>

SpecRules == InitRules /\ [][CallRules]_vars

\* ---- ai_assistance_score
ScorerSamples == {0, 3999, 4000, 7000, 7001, 10000}
ScorerInputs ==
    ScorerSamples \X ScorerSamples \X IdDivSamples \X FmtSamples \X LogicSamples

InitScorer == /\ Idle
              /\ pc = "call"
              /\ args \in ScorerInputs
              /\ ret = 0

CallScorer == /\ pc = "call"
              /\ ret' = ai_assistance_score(args[1], args[2], args[3],
                                            args[4], args[5])
              /\ pc' = "return"
              /\ UNCHANGED <<uploaded_files, session_state, run, args>>

SpecScorer == InitScorer /\ [][CallScorer]_vars

\* ---- generate_explanation, and classify_plagiarism on the same numbers
InitExplain == /\ Idle
               /\ pc = "call"
               /\ args \in PercentSamples \X PercentSamples \X ScoreSamples
                           \X IdDivSamples \X FmtSamples \X LogicSamples
               /\ ret = [explanation |-> <<>>, verdict |-> ""]

CallExplain ==
    /\ pc = "call"
    /\ ret' = [explanation |->
                   generate_explanation("a", "b", args[1], args[2], args[3],
                                        args[4], args[5], args[6]),
               verdict |-> classify_plagiarism(args[1], args[2], args[3])]
    /\ pc' = "return"
    /\ UNCHANGED <<uploaded_files, session_state, run, args>>

SpecExplain == InitExplain /\ [][CallExplain]_vars

\* ---- lexical_similarity and ast_similarity on a pair of texts
Codes == SeqsUpTo(Lexemes \ {"#c", "\n"}, MaxLen)
Texts == SeqsUpTo(Lexemes \ {"(", "\n"}, MaxLen)

InitLexical == /\ Idle
               /\ pc = "call"
               /\ args \in Texts \X Texts
               /\ ret = 0

CallLexical == /\ pc = "call"
               /\ ret' = lexical_similarity(args[1], args[2])
               /\ pc' = "return"
               /\ UNCHANGED <<uploaded_files, session_state, run, args>>

SpecLexical == InitLexical /\ [][CallLexical]_vars

InitStructural == /\ Idle
                  /\ pc = "call"
                  /\ args \in Codes \X Codes
                  /\ ret = 0

CallStructural == /\ pc = "call"
                  /\ ret' = ast_similarity(args[1], args[2])
                  /\ pc' = "return"
                  /\ UNCHANGED <<uploaded_files, session_state, run, args>>

SpecStructural == InitStructural /\ [][CallStructural]_vars

(* ============================== src/app.py ============================ *)
\* an uploaded file: its name <<stem, extension>> and the text read from it
Files ==
    {[name |-> <<"a", "py">>, text |-> <<"x", "x", "x">>],
     [name |-> <<"a", "py">>, text |-> <<"#c", "x">>],
     [name |-> <<"b", "PY">>, text |-> <<"x", "x", "x">>],
     [name |-> <<"b", "PY">>, text |-> <<"y", "y", "y">>],
     [name |-> <<"c", "txt">>, text |-> <<"x", "x", "x">>],
     [name |-> <<"c", "txt">>, text |-> <<"#c", "x">>],
     [name |-> <<"d", "pdf">>, text |-> <<"x", "x", "x">>],
     [name |-> <<"d", "pdf">>, text |-> <<"y", "y", "y">>]}

\* what ast.walk may count in one text
LogicCounts == {0, 1}

lower(ext) == IF ext = "PY" THEN "py" ELSE ext

get_extension(filename) == lower(filename[2])

\* lines 101-107, for a one-page document
read_pdf(text) == IF text = <<>> THEN <<>> ELSE Append(text, "\n")

\* lines 142-158: the content kept for one file
load_content(file) ==
    LET ext == get_extension(file.name)
    IN  IF ext = "py" THEN preprocess_code(file.text)
        ELSE IF ext \in {"java", "c", "cpp", "js", "ts", "cs", "txt"}
        THEN file.text
        ELSE IF ext = "pdf" THEN read_pdf(file.text)
        ELSE IF ext = "docx" THEN file.text
        ELSE <<>>

\* content_map and ext_map after the load loop: a later file of the same name
\* replaces the earlier entry and keeps its place among the keys
RECURSIVE dict_keys(_)
dict_keys(files) ==
    IF files = <<>> THEN <<>>
    ELSE LET init == dict_keys(SubSeq(files, 1, Len(files) - 1))
             k == files[Len(files)].name
         IN  IF k \in Range(init) THEN init ELSE Append(init, k)

last_named(files, k) ==
    files[CHOOSE i \in 1..Len(files) :
              /\ files[i].name = k
              /\ \A j \in 1..Len(files) : files[j].name = k => j <= i]

\* mutant: itertools.permutations(keys, 2)
permutations(keys) ==
    LET n == Len(keys)
        row(i) == [j \in 1..(n - 1) |->
                      <<keys[i], keys[IF j < i THEN j ELSE j + 1]>>]
        rows[i \in 0..n] == IF i = 0 THEN <<>> ELSE rows[i - 1] \o row(i)
    IN  rows[n]

\* itertools.combinations(keys, 2), in its order
RECURSIVE combinations(_)
combinations(keys) ==
    IF Len(keys) < 2 THEN <<>>
    ELSE [j \in 1..(Len(keys) - 1) |-> <<keys[1], keys[j + 1]>>]
         \o combinations(Tail(keys))

\* lines 173-199: one turn of the compare loop
compare_signals(ext_a, ext_b, code_a, code_b, parse) ==
    IF ext_a = "py" /\ ext_b = "py"
    THEN [ast |-> ast_similarity(code_a, code_b),
          id_div |-> identifier_diversity(code_a),
          fmt |-> formatting_consistency(code_a),
          logic |-> logic_density(code_a, parse[code_a])]
    ELSE [ast |-> 0, id_div |-> <<1, 2>>, fmt |-> <<1, 2>>, logic |-> <<1, 2>>]

compare(a, b, ext_map, content_map, parse) ==
    LET lex == lexical_similarity(content_map[a], content_map[b])
        sig == compare_signals(ext_map[a], ext_map[b],
                               content_map[a], content_map[b], parse)
        ai_score == ai_assistance_score(lex, sig.ast, sig.id_div, sig.fmt,
                                        sig.logic)
        verdict == classify_plagiarism(lex, sig.ast, ai_score)
        explanation ==
            Append(generate_explanation(a, b, lex, sig.ast, ai_score,
                                        sig.id_div, sig.fmt, sig.logic),
                   <<"File types compared", <<ext_map[a], ext_map[b]>>>>)
    IN  [a |-> a, b |-> b, ext_a |-> ext_map[a], ext_b |-> ext_map[b],
         lex |-> lex, ast |-> sig.ast, id_div |-> sig.id_div, fmt |-> sig.fmt,
         logic |-> sig.logic, ai_score |-> ai_score, verdict |-> verdict,
         explanation |-> explanation]

\* explanations[(a, b)] = explanation, a later pair of the same key replacing it
explanations_of(pairs) ==
    [k \in {<<pairs[i].a, pairs[i].b>> : i \in 1..Len(pairs)} |->
        pairs[CHOOSE i \in 1..Len(pairs) :
                  /\ <<pairs[i].a, pairs[i].b>> = k
                  /\ \A j \in 1..Len(pairs) :
                        <<pairs[j].a, pairs[j].b>> = k => j <= i].explanation]

rows_of(pairs) ==
    [i \in 1..Len(pairs) |->
        <<pairs[i].a, pairs[i].b, pairs[i].lex, pairs[i].ast,
          pairs[i].ai_score, pairs[i].verdict>>]

NoRun == [outcome |-> "none", rows |-> <<>>, explanations |-> <<>>,
          pairs |-> <<>>]

Stopped(outcome) == [NoRun EXCEPT !.outcome = outcome]

Init == /\ Idle
        /\ args = <<>>
        /\ ret = <<>>
        /\ pc = "idle"

\* the file uploader takes one more file; the script reruns without the button
Upload(file) ==
    /\ Len(uploaded_files) < MaxFiles
    /\ uploaded_files' = Append(uploaded_files, file)
    /\ run' = NoRun
    /\ UNCHANGED <<session_state, args, ret, pc>>

\* lines 123-235: the "Analyze Files" button
Analyze(parse) ==
    LET file_names == [i \in 1..Len(uploaded_files) |-> uploaded_files[i].name]
        keys == dict_keys(uploaded_files)
        content_map == [k \in Range(keys) |->
                            load_content(last_named(uploaded_files, k))]
        ext_map == [k \in Range(keys) |-> get_extension(k)]
        todo == combinations(keys)
        pairs == [i \in 1..Len(todo) |->
                     compare(todo[i][1], todo[i][2], ext_map, content_map,
                             parse)]
    IN  IF Len(uploaded_files) < 2
        THEN /\ run' = Stopped("Please upload at least two files.")
             /\ UNCHANGED <<uploaded_files, session_state, args, ret, pc>>
        ELSE IF Len(file_names) # Cardinality(Range(file_names))
        THEN /\ run' = Stopped("Duplicate file detected.")
             /\ UNCHANGED <<uploaded_files, session_state, args, ret, pc>>
        ELSE IF rows_of(pairs) = <<>>
        THEN /\ run' = Stopped("No valid comparisons found.")
             /\ UNCHANGED <<uploaded_files, session_state, args, ret, pc>>
        ELSE /\ run' = [outcome |-> "Analysis Complete",
                        rows |-> rows_of(pairs),
                        explanations |-> explanations_of(pairs),
                        pairs |-> pairs]
             /\ session_state' = [done |-> TRUE, df |-> rows_of(pairs),
                                  explanations |-> explanations_of(pairs)]
             /\ UNCHANGED <<uploaded_files, args, ret, pc>>

\* what ast.parse finds in each Python content of the batch: nothing in an
\* empty text, and nothing where it raises as the tokenizer does
Parses(files) ==
    LET codes == {load_content(files[i]) : i \in
                     {j \in 1..Len(files) : get_extension(files[j].name) = "py"}}
    IN  {p \in [codes -> LogicCounts] :
            \A c \in codes : (c = <<>> \/ TokenError(c)) => p[c] = 0}

Next == \/ \E file \in Files : Upload(file)
        \/ \E parse \in Parses(uploaded_files) : Analyze(parse)

Spec == Init /\ [][Next]_vars

(* ================================ claims ============================== *)
Verdicts == {"Direct Copy", "AI-Assisted Plagiarism", "Likely Original",
             "Moderate Similarity"}

\* C1: classify_plagiarism returns exactly one of the four verdicts, chosen by
\* the first matching rule: Direct Copy iff lexical > 80 and structural > 80;
\* otherwise AI-Assisted Plagiarism iff ai_score >= 0.7; otherwise Likely
\* Original iff lexical < 35 and structural < 35; otherwise Moderate Similarity.
C1_ClassifyCascade ==
    pc = "return" =>
        LET r1 == args[1] > 8000 /\ args[2] > 8000
            r2 == args[3] >= 70
            r3 == args[1] < 3500 /\ args[2] < 3500
        IN  /\ ret \in Verdicts
            /\ (ret = "Direct Copy") <=> r1
            /\ (ret = "AI-Assisted Plagiarism") <=> (~r1 /\ r2)
            /\ (ret = "Likely Original") <=> (~r1 /\ ~r2 /\ r3)
            /\ (ret = "Moderate Similarity") <=> (~r1 /\ ~r2 /\ ~r3)

\* rule 2 wins over rule 3 on a triple that satisfies both
C1_Witness ==
    /\ pc = "return"
    /\ args[1] < 3500 /\ args[2] < 3500 /\ args[3] >= 70
    /\ ret = "AI-Assisted Plagiarism"

\* the rules of the scorer that an input triggers
Triggered(i) ==
    {k \in 1..4 : \/ k = 1 /\ i[2] > 7000 /\ i[1] < 4000
                  \/ k = 2 /\ LtR(i[3], 35, 100)
                  \/ k = 3 /\ GtR(i[4], 85, 100)
                  \/ k = 4 /\ GtR(i[5], 15, 100)}

Bonus(k) == IF k = 1 THEN 40 ELSE 20

RECURSIVE SumBonus(_)
SumBonus(S) ==
    IF S = {} THEN 0
    ELSE LET k == CHOOSE j \in S : TRUE IN Bonus(k) + SumBonus(S \ {k})


\* C2: ai_assistance_score is min(0.4*[rule 1] + 0.2*[rule 2] + 0.2*[rule 3]
\* + 0.2*[rule 4], 1.0); it lies in [0, 1] and an input that triggers every
\* rule of another input and more never scores less.
C2_ScoreFormula ==
    pc = "return" =>
        /\ ret = Min(SumBonus(Triggered(args)), 100)
        /\ 0 <= ret /\ ret <= 100
        /\ \A o \in ScorerInputs :
              Triggered(args) \subseteq Triggered(o) =>
                  ai_assistance_score(o[1], o[2], o[3], o[4], o[5]) >= ret

\* all four rules trigger and the score is the maximum 1.0
C2_Witness ==
    /\ pc = "return"
    /\ Triggered(args) = 1..4
    /\ ret = 100

\* C3: the structural similarity of two non-empty token sequences lies in
\* [0, 100], it is 0.0 when either token sequence is empty, and the matches
\* counted never exceed max(|A|, |B|).
C3_StructuralBounded ==
    pc = "return" =>
        LET a_tokens == normalize(args[1])
            b_tokens == normalize(args[2])
        IN  /\ 0 <= ret /\ ret <= 10000
            /\ (a_tokens = <<>> \/ b_tokens = <<>>) => ret = 0
            /\ count_matches(a_tokens, b_tokens)
                   <= Max(Len(a_tokens), Len(b_tokens))

\* two non-empty token sequences of different lengths, partly matched
C3_Witness ==
    /\ pc = "return"
    /\ Len(normalize(args[1])) > Len(normalize(args[2]))
    /\ Len(normalize(args[2])) > 1
    /\ 0 < ret /\ ret < 10000

\* C4: lexical similarity is symmetric: lexical_similarity(A, B) equals
\* lexical_similarity(B, A).
C4_LexicalSymmetric ==
    pc = "return" => ret = lexical_similarity(args[2], args[1])

\* two texts with different vocabularies that share a word
C4_Witness ==
    /\ pc = "return"
    /\ Cardinality(tokenize(args[1])) < Cardinality(tokenize(args[2]))
    /\ 0 < ret /\ ret < 10000

\* C5 as stated: for every non-empty text T, lexical_similarity(T, T) is 100.0.
C5_NonEmptySelfIs100 ==
    (pc = "return" /\ args[1] = args[2] /\ args[1] # <<>>) => ret = 10000

\* C5 amended: for every text T holding at least one identifier-shaped word,
\* lexical_similarity(T, T) is 100.0.
C5_SelfIs100 ==
    (pc = "return" /\ args[1] = args[2] /\ tokenize(args[1]) # {})
        => ret = 10000

\* a text with an identifier compared with itself
C5_Witness ==
    /\ pc = "return"
    /\ args[1] = args[2]
    /\ Cardinality(tokenize(args[1])) = 2
    /\ ret = 10000

\* the pairs of the last run in which a document is not Python
NonCodePairs ==
    {i \in 1..Len(run.pairs) :
        run.pairs[i].ext_a # "py" \/ run.pairs[i].ext_b # "py"}

\* C6: a pair with a document that is not structurally comparable gets
\* structural = 0.0 and the three behavioural signals 0.5, the default triggers
\* none of the bonus rules (id_div < 0.35, fmt > 0.85, logic > 0.15), and the
\* pair's ai_score holds no bonus of a behavioural signal.
C6_DefaultTriggersNoBonus ==
    \A i \in NonCodePairs :
        LET p == run.pairs[i]
        IN  /\ p.ast = 0
            /\ p.id_div = <<1, 2>> /\ p.fmt = <<1, 2>> /\ p.logic = <<1, 2>>
            /\ ~LtR(p.id_div, 35, 100)
            /\ ~GtR(p.fmt, 85, 100)
            /\ ~GtR(p.logic, 15, 100)
            /\ p.ai_score = (IF p.ast > 7000 /\ p.lex < 4000 THEN 40 ELSE 0)

\* the closing line of an explanation
ClosingLine(explanation) == explanation[Len(explanation)][1]

\* C7 as stated: when the explanation closes with the high-score line,
\* classify_plagiarism on the same numbers returns AI-Assisted Plagiarism.
C7_HighLineMeansAIVerdict ==
    (pc = "return"
        /\ ClosingLine(ret.explanation) = "indicating AI-assisted plagiarism")
    => ret.verdict = "AI-Assisted Plagiarism"

\* C7 amended: when the explanation closes with the high-score line, the
\* verdict is AI-Assisted Plagiarism unless lexical > 80 and structural > 80,
\* where it is Direct Copy.
C7_HighLineVerdict ==
    (pc = "return"
        /\ ClosingLine(ret.explanation) = "indicating AI-assisted plagiarism")
    => ret.verdict = (IF args[1] > 8000 /\ args[2] > 8000
                      THEN "Direct Copy" ELSE "AI-Assisted Plagiarism")

\* the score is exactly on the threshold and the verdict follows it
C7_Witness ==
    /\ pc = "return"
    /\ args[3] = 70
    /\ ClosingLine(ret.explanation) = "indicating AI-assisted plagiarism"
    /\ ret.verdict = "AI-Assisted Plagiarism"

BatchNames == {uploaded_files[i].name : i \in 1..Len(uploaded_files)}

\* C8: a run on N >= 2 documents of unique names yields one row and one
\* explanation per unordered pair of distinct documents, C(N,2) of each, never
\* (A,B) with (B,A), never (A,A); a run on fewer than two documents or on a
\* duplicate name yields no result.
C8_OneResultPerPair ==
    LET N == Len(uploaded_files)
        rows == run.rows
        unique == Cardinality(BatchNames) = N
    IN  /\ (run.outcome # "none" /\ N >= 2 /\ unique) =>
              /\ run.outcome = "Analysis Complete"
              /\ 2 * Len(rows) = N * (N - 1)
              /\ 2 * Cardinality(DOMAIN run.explanations) = N * (N - 1)
              /\ \A i \in 1..Len(rows) :
                    /\ rows[i][1] # rows[i][2]
                    /\ {rows[i][1], rows[i][2]} \subseteq BatchNames
                    /\ <<rows[i][1], rows[i][2]>> \in DOMAIN run.explanations
                    /\ \A j \in 1..Len(rows) :
                          i # j => {rows[i][1], rows[i][2]}
                                       # {rows[j][1], rows[j][2]}
        /\ (run.outcome # "none" /\ (N < 2 \/ ~unique)) =>
              /\ run.outcome # "Analysis Complete"
              /\ rows = <<>>
              /\ run.explanations = <<>>

\* a run on three documents of unique names, with its three rows
C8_Witness ==
    /\ Len(uploaded_files) = 3
    /\ run.outcome = "Analysis Complete"
    /\ Len(run.rows) = 3

RECURSIVE Occurrences(_, _)
Occurrences(v, tokens) ==
    IF tokens = <<>> THEN 0
    ELSE (IF Head(tokens) = v THEN 1 ELSE 0) + Occurrences(v, Tail(tokens))

RECURSIVE SumMin(_, _, _)
SumMin(values, a_tokens, b_tokens) ==
    IF values = {} THEN 0
    ELSE LET v == CHOOSE w \in values : TRUE
         IN  Min(Occurrences(v, a_tokens), Occurrences(v, b_tokens))
             + SumMin(values \ {v}, a_tokens, b_tokens)

Reverse(s) == [i \in 1..Len(s) |-> s[Len(s) + 1 - i]]

\* C9: the matches counted by the first-fit loop are the size of the multiset
\* intersection, the sum over token values v of min(count of v in A, count of
\* v in B); the count and the score do not change when the tokens are
\* reordered or A and B are swapped.
C9_GreedyIsMultisetIntersection ==
    pc = "return" =>
        LET a_tokens == normalize(args[1])
            b_tokens == normalize(args[2])
            matches == count_matches(a_tokens, b_tokens)
        IN  /\ matches = SumMin(Range(a_tokens) \cup Range(b_tokens),
                                a_tokens, b_tokens)
            /\ matches = count_matches(b_tokens, a_tokens)
            /\ matches = count_matches(Reverse(a_tokens), b_tokens)
            /\ matches = count_matches(a_tokens, Reverse(b_tokens))
            /\ similarity_of_tokens(a_tokens, b_tokens)
                   = similarity_of_tokens(Reverse(b_tokens), Reverse(a_tokens))
            /\ (args[1] # <<>> /\ args[2] # <<>>)
                   => ret = similarity_of_tokens(a_tokens, b_tokens)
            /\ ret = ast_similarity(args[2], args[1])

\* A repeats a token value more often than B holds it
C9_Witness ==
    /\ pc = "return"
    /\ Occurrences("VAR", normalize(args[1])) = 3
    /\ Occurrences("VAR", normalize(args[2])) = 1
    /\ Occurrences("NUM", normalize(args[2])) = 2
    /\ ret = 5000

\* C10: in a run, where ai_score is computed from the lexical and structural
\* values the verdict is computed from, the verdict is AI-Assisted Plagiarism
\* only if structural > 70 and lexical < 40; ai_score >= 0.7 never meets the
\* verdict Direct Copy; a pair of structural 0.0 is neither AI-Assisted
\* Plagiarism nor Direct Copy.
C10_AIVerdictNeedsParaphrasePattern ==
    \A i \in 1..Len(run.pairs) :
        LET p == run.pairs[i]
        IN  /\ p.verdict = "AI-Assisted Plagiarism"
                  => (p.ast > 7000 /\ p.lex < 4000)
            /\ p.ai_score >= 70 => p.verdict # "Direct Copy"
            /\ p.ast = 0 => p.verdict \notin {"AI-Assisted Plagiarism",
                                              "Direct Copy"}

\* a run with a pair of Python files judged AI-assisted
C10_Witness ==
    \E i \in 1..Len(run.pairs) :
        /\ run.pairs[i].verdict = "AI-Assisted Plagiarism"
        /\ run.pairs[i].ai_score >= 70
        /\ run.pairs[i].ast > 7000 /\ run.pairs[i].lex < 4000

====
